---- MODULE Spec2Model ----
(***************************************************************************)
(* Spaced-repetition scheduler of lesson-services: SRCardService and       *)
(* SRReviewService over the sr_cards, sr_reviews and daily_activity        *)
(* tables; and its streak tracker: UserStreakService over user_streaks     *)
(* and the daily_activity ledger.                                          *)
(*                                                                         *)
(* Representation.                                                         *)
(*   - An ease factor is a whole number of thousandths (2.5 is 2500), so   *)
(*     that round(new_ef, 2) is a real rounding step.                      *)
(*   - A timestamp is a whole number of clock ticks, TicksPerDay ticks to  *)
(*     a calendar day.                                                     *)
(*   - cards, reviews and activity hold COMMITTED rows only.  What a       *)
(*     request handler holds in its SQLAlchemy session (the loaded card,   *)
(*     the flushed but uncommitted review and daily_activity rows) is in   *)
(*     the handler's own variables.                                        *)
(*   - Each handler step is one statement sent to the database (SELECT,    *)
(*     INSERT, COMMIT) together with the Python code around it; steps of   *)
(*     different handlers interleave (READ COMMITTED, no row locks taken   *)
(*     by the code).                                                       *)
(*   - A calendar date is a day number; last_day = None is NoDay.          *)
(*   - SpecSeq and Spec run the review handlers, SpecStreak the streak     *)
(*     operations and direct ledger increments.  SpecDue, SpecLog and      *)
(*     SpecDays add the card queries, card deletion and the review streak; *)
(*     SpecPairs runs reviews of two flashcards at the same time;          *)
(*     SpecReplay and SpecGrowing run the streak operations on a ledger    *)
(*     that only grows.                                                    *)
(*   - reply is what the step just taken returned when it was a read-only  *)
(*     query, NoReply otherwise.                                           *)
(***************************************************************************)
EXTENDS Integers, Sequences, FiniteSets, TLC

----------------------------------------------------------------------------
(* Bounds of the model *)

MaxReviews == 3
MaxConcurrent == 2
MaxCards == 2
MaxClock == 1
TicksPerDay == 2
MaxDay == 3
MaxIncrements == 3
MaxDueReviews == 1

(* Program constants *)

REVIEW_MINUTES_PER_CARD == 2
REVIEW_POINTS == 5
DefaultEase == 2500
MinEase == 1300

Procs == {"h1", "h2"}
Users == {"u1"}

\* the learners whose cards the queries see
Learners == Users \cup {"u2"}
Flashcards == {"f1"}

\* quality values a caller may send, in and out of the valid range
Qualities == {-1, 0, 1, 2, 3, 4, 5, 6}

\* the qualities sent in the concurrent specification: a lapse, a success
\* and a rejected value
ConcQualities == {-1, 1, 4}

NoCard == [id |-> 0]
NoReview == [quality |-> -1]
NoRow == [minutes |-> -1]

\* last_day = None
NoDay == -1

\* no user_streaks row for the learner
NoStreak == [current_len |-> -1]

\* DailyActivityService.VALID_FIELDS
ActivityFields == {"lessons_completed", "quizzes_completed", "minutes", "points"}

\* SRCardCreate: the schema's defaults
DefaultPayload == [ease_factor |-> DefaultEase, interval_d |-> 0,
                   repetition |-> 0, suspended |-> FALSE]

\* request bodies of POST /cards used as inputs
Payloads ==
    { DefaultPayload,
      [ease_factor |-> 2500, interval_d |-> 6, repetition |-> 2, suspended |-> FALSE],
      [ease_factor |-> 2557, interval_d |-> 6, repetition |-> 2, suspended |-> FALSE],
      [ease_factor |-> 1000, interval_d |-> 0, repetition |-> 2, suspended |-> TRUE] }

----------------------------------------------------------------------------
(* Pure functions *)

Max(a, b) == IF a >= b THEN a ELSE b
Min(a, b) == IF a <= b THEN a ELSE b

\* Python round(n / d) for d > 0: nearest integer, ties to the even one
PyRound(n, d) ==
    LET f == n \div d
        r == n % d
    IN  IF 2 * r < d THEN f
        ELSE IF 2 * r > d THEN f + 1
        ELSE IF f % 2 = 0 THEN f ELSE f + 1

\* round(x, 2) of an ease factor in thousandths: a multiple of 10
Round2(x) == 10 * PyRound(x, 10)

\* mutant: the quadratic term of the adjustment is dropped
EaseDeltaLinear(q) == 100 - (5 - q) * 80

\* 0.1 - (5 - q) * (0.08 + (5 - q) * 0.02), in thousandths
EaseDelta(q) == 100 - (5 - q) * (80 + (5 - q) * 20)

\* mutant: the computed interval is not floored at 1
SuccessIntervalNoFloor(card) ==
    IF card.repetition = 0 THEN 1
    ELSE IF card.repetition = 1 THEN 6
    ELSE PyRound(card.interval_d * card.ease_factor, 1000)

\* interval chosen by a successful review
SuccessInterval(card) ==
    IF card.repetition = 0 THEN 1
    ELSE IF card.repetition = 1 THEN 6
    ELSE Max(1, PyRound(card.interval_d * card.ease_factor, 1000))

\* mutant: the new ease factor is not clamped at 1.3
NewEaseNoFloor(card, quality) ==
    Round2(card.ease_factor + EaseDelta(quality))

NewEase(card, quality) ==
    Max(MinEase, Round2(card.ease_factor + EaseDelta(quality)))

\* mutant: a lapse resets the repetition count but keeps the interval
UpdateRuleLapseKeepsInterval(card, q, now) ==
    LET quality == Max(0, Min(5, q))
        ivl == IF quality >= 3 THEN SuccessInterval(card) ELSE card.interval_d
        rep == IF quality >= 3 THEN card.repetition + 1 ELSE 0
    IN  [card EXCEPT !.repetition = rep,
                     !.interval_d = ivl,
                     !.ease_factor = NewEase(card, quality),
                     !.due_at = now + ivl * TicksPerDay,
                     !.suspended = FALSE]

\* mutant: the ease factor is adjusted before the interval is computed
UpdateRuleEaseFirst(card, q, now) ==
    LET quality == Max(0, Min(5, q))
        eased == [card EXCEPT !.ease_factor = NewEase(card, quality)]
        ivl == IF quality >= 3 THEN SuccessInterval(eased) ELSE 0
        rep == IF quality >= 3 THEN card.repetition + 1 ELSE 0
    IN  [eased EXCEPT !.repetition = rep,
                      !.interval_d = ivl,
                      !.due_at = now + ivl * TicksPerDay,
                      !.suspended = FALSE]

\* mutant: a review leaves the suspended flag as it was
UpdateRuleKeepsSuspended(card, q, now) ==
    LET quality == Max(0, Min(5, q))
        ivl == IF quality >= 3 THEN SuccessInterval(card) ELSE 0
        rep == IF quality >= 3 THEN card.repetition + 1 ELSE 0
    IN  [card EXCEPT !.repetition = rep,
                     !.interval_d = ivl,
                     !.ease_factor = NewEase(card, quality),
                     !.due_at = now + ivl * TicksPerDay]

\* mutant: a lapse leaves the repetition count as it was
UpdateRuleLapseKeepsRepetition(card, q, now) ==
    LET quality == Max(0, Min(5, q))
        ivl == IF quality >= 3 THEN SuccessInterval(card) ELSE 0
        rep == IF quality >= 3 THEN card.repetition + 1 ELSE card.repetition
    IN  [card EXCEPT !.repetition = rep,
                     !.interval_d = ivl,
                     !.ease_factor = NewEase(card, quality),
                     !.due_at = now + ivl * TicksPerDay,
                     !.suspended = FALSE]

\* the card object after lines 81-103 of update_card_after_review
UpdateRule(card, q, now) ==
    LET quality == Max(0, Min(5, q))
        ivl == IF quality >= 3 THEN SuccessInterval(card) ELSE 0
        rep == IF quality >= 3 THEN card.repetition + 1 ELSE 0
    IN  [card EXCEPT !.repetition = rep,
                     !.interval_d = ivl,
                     !.ease_factor = NewEase(card, quality),
                     !.due_at = now + ivl * TicksPerDay,
                     !.suspended = FALSE]

\* calendar day of a timestamp (datetime.date())
DateOf(t) == t \div TicksPerDay

\* the calendar days of the model
Days == 0 .. Max(MaxDay, DateOf(MaxClock))

----------------------------------------------------------------------------
(* State *)

VARIABLES
    uniquePair,  \* whether sr_cards carries UNIQUE (user_id, flashcard_id)
    cards,       \* committed rows of sr_cards
    nextId,      \* next fresh card id (uuid4)
    reviews,     \* committed rows of sr_reviews, in commit order
    activity,    \* committed rows of daily_activity, by (user_id, activity_dt)
    clock,       \* datetime.utcnow()
    h,           \* per request handler: position and session contents
    started,     \* number of valid review requests begun
    streaks,     \* committed rows of user_streaks, by user_id
    recorded,    \* number of direct increment_activity calls made
    call,        \* history: the last operation on streaks or on the ledger
    reply,       \* what the step just taken returned, when it was a query
    audit        \* history: per card id, the row as created, the operation
                 \*          that created it and the number of review updates
                 \*          committed to it

vars == <<uniquePair, cards, nextId, reviews, activity, clock, h, started,
          streaks, recorded, call, reply, audit>>

\* what the spaced-repetition handlers never touch
streakVars == <<streaks, recorded, call>>

\* what the streak operations never touch
cardVars == <<uniquePair, cards, nextId, reviews, h, started, audit>>

NoCall == [op |-> "none", user |-> "u1", date |-> NoDay, status |-> "none"]

\* get_user_stats of a learner without cards
NoStats ==
    [total_cards |-> 0, due_cards |-> 0, suspended_cards |-> 0, new_cards |-> 0,
     learning_cards |-> 0, mature_cards |-> 0,
     average_ease_factor |-> [sum |-> 0, count |-> 0],
     average_interval |-> [sum |-> 0, count |-> 0]]

NoReply == [op |-> "none", user |-> "u1", now |-> 0, cards |-> <<>>,
            stats |-> NoStats, streak |-> 0]

persisted == <<cards, reviews, activity>>

Idle(result) ==
    [pc |-> "idle", op |-> "none", user |-> "u1", flash |-> "f1", quality |-> 0,
     payload |-> DefaultPayload, card |-> NoCard, prev |-> 0, rev |-> NoReview,
     act |-> NoRow, newAct |-> FALSE, res |-> result]

\* get_card_by_flashcard's filter
CardsOf(u, f) == {c \in cards : c.user_id = u /\ c.flashcard_id = f}

\* get_card's filter
CardsById(id) == {c \in cards : c.id = id}

TheCard(S) == CHOOSE c \in S : TRUE

\* card ids that handlers on the creation path may still take
InFlightCreates == Cardinality({p \in Procs : h[p].pc \in {"create", "insert"}})

CanCreate == nextId + InFlightCreates <= MaxCards

Init ==
    /\ uniquePair \in BOOLEAN
    /\ cards = {}
    /\ nextId = 1
    /\ reviews = <<>>
    /\ activity = [u \in Users, d \in Days |-> NoRow]
    /\ clock = 0
    /\ h = [p \in Procs |-> Idle("none")]
    /\ started = 0
    /\ streaks = [u \in Users |-> NoStreak]
    /\ recorded = 0
    /\ call = NoCall
    /\ reply = NoReply
    /\ audit = <<>>

----------------------------------------------------------------------------
(* Storage helpers *)

\* the row a flush writes: the ORM's UPDATE sets only the columns whose value
\* differs from the one the session loaded; the others keep what is stored
NetChange(row, loaded, new) ==
    [f \in DOMAIN row |-> IF new[f] # loaded[f] THEN new[f] ELSE row[f]]

\* mutant: the card is created with interval 1 whatever the request says
NewCardRowIntervalOne(id, u, f, payload, now) ==
    [id |-> id, user_id |-> u, flashcard_id |-> f,
     ease_factor |-> payload.ease_factor, interval_d |-> 1,
     repetition |-> payload.repetition, due_at |-> now,
     suspended |-> payload.suspended]

NewCardRow(id, u, f, payload, now) ==
    [id |-> id, user_id |-> u, flashcard_id |-> f,
     ease_factor |-> payload.ease_factor, interval_d |-> payload.interval_d,
     repetition |-> payload.repetition, due_at |-> now,
     suspended |-> payload.suspended]

\* DailyActivity(user_id, activity_dt) with the column defaults
NewActivityRow ==
    [lessons_completed |-> 0, quizzes_completed |-> 0, minutes |-> 0, points |-> 0]

\* mutant: prev_interval is read from the card after the update
NewReviewPrevAfterUpdate(u, f, quality, prev, updated, now) ==
    [user_id |-> u, flashcard_id |-> f, quality |-> quality,
     prev_interval |-> updated.interval_d, new_interval |-> updated.interval_d,
     new_ef |-> updated.ease_factor, reviewed_at |-> now]

\* mutant: prev_interval is not read from the card
NewReviewPrevZero(u, f, quality, prev, updated, now) ==
    [user_id |-> u, flashcard_id |-> f, quality |-> quality,
     prev_interval |-> 0, new_interval |-> updated.interval_d,
     new_ef |-> updated.ease_factor, reviewed_at |-> now]

\* SRReview(...) of create_review
NewReview(u, f, quality, prev, updated, now) ==
    [user_id |-> u, flashcard_id |-> f, quality |-> quality,
     prev_interval |-> prev, new_interval |-> updated.interval_d,
     new_ef |-> updated.ease_factor, reviewed_at |-> now]

\* an exception leaves the handler: its session is discarded with whatever
\* it had flushed but not committed
Raise(p, error) == h' = [h EXCEPT ![p] = Idle(error)]

Return(p) == h' = [h EXCEPT ![p] = Idle("none")]

----------------------------------------------------------------------------
(* SRReviewService.create_review, statement by statement *)

\* mutant: the upper bound of the guard is off by one
ValidQualityUpToSix(q) == ~(q < 0 \/ q > 6)

\* create_review's guard: quality < 0 or quality > 5 raises
ValidQuality(q) == ~(q < 0 \/ q > 5)

\* CHECK (quality BETWEEN 0 AND 5) of sr_reviews
QualityCheck(q) == 0 <= q /\ q <= 5

\* quality check, then the SELECT of get_card_by_flashcard
StartReview(p, u, f, q, limit) ==
    /\ h[p].pc = "idle"
    /\ IF ~ValidQuality(q)
       THEN /\ Raise(p, "InvalidQuality")
            /\ UNCHANGED started
       ELSE /\ started < limit
            /\ started' = started + 1
            /\ LET found == CardsOf(u, f)
                   me == [h[p] EXCEPT !.op = "review", !.user = u, !.flash = f,
                                      !.quality = q, !.res = "none"]
               IN  IF Cardinality(found) > 1
                   THEN Raise(p, "MultipleResultsFound")
                   ELSE IF found # {}
                   THEN h' = [h EXCEPT ![p] =
                                [me EXCEPT !.pc = "update",
                                           !.card = TheCard(found),
                                           !.prev = TheCard(found).interval_d]]
                   ELSE /\ CanCreate
                        /\ h' = [h EXCEPT ![p] = [me EXCEPT !.pc = "create"]]
    /\ reply' = NoReply
    /\ UNCHANGED <<streakVars, uniquePair, cards, nextId, reviews, activity, clock, audit>>

\* create_card called by create_review: its own SELECT
CreateCheck(p) ==
    /\ h[p].pc = "create"
    /\ LET found == CardsOf(h[p].user, h[p].flash)
       IN  IF Cardinality(found) > 1
           THEN Raise(p, "MultipleResultsFound")
           ELSE IF found # {}
           THEN h' = [h EXCEPT ![p].pc = "update",
                               ![p].card = TheCard(found),
                               ![p].prev = TheCard(found).interval_d]
           ELSE h' = [h EXCEPT ![p].pc = "insert"]
    /\ reply' = NoReply
    /\ UNCHANGED <<streakVars, uniquePair, cards, nextId, reviews, activity, clock, started, audit>>

\* create_card called by the POST /cards route: its SELECT
StartCreate(p, u, f, payload) ==
    /\ h[p].pc = "idle"
    /\ LET found == CardsOf(u, f)
       IN  IF Cardinality(found) > 1
           THEN Raise(p, "MultipleResultsFound")
           ELSE IF found # {}
           THEN Return(p)
           ELSE /\ CanCreate
                /\ h' = [h EXCEPT ![p] =
                           [h[p] EXCEPT !.pc = "insert", !.op = "create",
                                        !.user = u, !.flash = f,
                                        !.payload = payload, !.res = "none"]]
    /\ reply' = NoReply
    /\ UNCHANGED <<streakVars, uniquePair, cards, nextId, reviews, activity, clock, started, audit>>

\* create_card: INSERT and COMMIT
InsertCard(p) ==
    /\ h[p].pc = "insert"
    /\ IF uniquePair /\ CardsOf(h[p].user, h[p].flash) # {}
       THEN /\ Raise(p, "IntegrityError")
            /\ UNCHANGED <<cards, nextId, audit>>
       ELSE LET row == NewCardRow(nextId, h[p].user, h[p].flash, h[p].payload, clock)
            IN  /\ cards' = cards \cup {row}
                /\ nextId' = nextId + 1
                /\ audit' = Append(audit, [origin |-> row, by |-> h[p].op,
                                        applied |-> 0])
                /\ h' = [h EXCEPT ![p].pc = "refresh", ![p].card = row]
    /\ reply' = NoReply
    /\ UNCHANGED <<streakVars, uniquePair, reviews, activity, clock, started>>

\* create_card: db.refresh(card); create_review then reads card.interval_d
RefreshCreated(p) ==
    /\ h[p].pc = "refresh"
    /\ LET found == CardsById(h[p].card.id)
       IN  IF found = {}
           THEN Raise(p, "RefreshFailed")
           ELSE IF h[p].op = "create"
           THEN Return(p)
           ELSE h' = [h EXCEPT ![p].pc = "update",
                               ![p].card = TheCard(found),
                               ![p].prev = TheCard(found).interval_d]
    /\ reply' = NoReply
    /\ UNCHANGED <<streakVars, uniquePair, cards, nextId, reviews, activity, clock, started, audit>>

\* update_card_after_review up to its COMMIT.  get_card's SELECT finds the row
\* or not; the values computed on are those of the object the session already
\* holds (the identity map does not overwrite a loaded object).
UpdateCard(p) ==
    /\ h[p].pc = "update"
    /\ LET found == CardsById(h[p].card.id)
       IN  IF found = {}
           THEN /\ Raise(p, "UpdateFailed")
                /\ UNCHANGED <<cards, audit>>
           ELSE LET row == TheCard(found)
                    new == UpdateRule(h[p].card, h[p].quality, clock)
                IN  /\ cards' = (cards \ {row}) \cup {NetChange(row, h[p].card, new)}
                    /\ audit' = [audit EXCEPT ![row.id].applied = @ + 1]
                    /\ h' = [h EXCEPT ![p].pc = "log", ![p].card = new]
    /\ reply' = NoReply
    /\ UNCHANGED <<streakVars, uniquePair, nextId, reviews, activity, clock, started>>

\* db.refresh(card) of update_card_after_review, then the SRReview is built
\* and flushed (INSERT, not committed)
LogReview(p) ==
    /\ h[p].pc = "log"
    /\ LET found == CardsById(h[p].card.id)
       IN  IF found = {}
           THEN Raise(p, "RefreshFailed")
           ELSE IF ~QualityCheck(h[p].quality)
           THEN Raise(p, "IntegrityError")
           ELSE h' = [h EXCEPT ![p].pc = "act_sel",
                               ![p].card = TheCard(found),
                               ![p].rev = NewReview(h[p].user, h[p].flash,
                                                    h[p].quality, h[p].prev,
                                                    TheCard(found), clock)]
    /\ reply' = NoReply
    /\ UNCHANGED <<streakVars, uniquePair, cards, nextId, reviews, activity, clock, started, audit>>

\* the daily_activity key a handler's increments go to
ActKey(p) == <<h[p].user, DateOf(h[p].rev.reviewed_at)>>

\* COMMIT of a handler's session: the flushed review becomes visible
CommitReview(p) ==
    reviews' = IF h[p].rev # NoReview THEN Append(reviews, h[p].rev) ELSE reviews

\* increment_activity(minutes): the SELECT of _get_or_create_activity
ActSelect(p) ==
    /\ h[p].pc = "act_sel"
    /\ LET stored == activity[ActKey(p)]
       IN  IF stored # NoRow
           THEN h' = [h EXCEPT ![p].pc = "act_min", ![p].act = stored]
           ELSE h' = [h EXCEPT ![p].pc = "act_ins"]
    /\ reply' = NoReply
    /\ UNCHANGED <<streakVars, uniquePair, cards, nextId, reviews, activity, clock, started, audit>>

\* _get_or_create_activity: db.add and db.flush of the new row.  The INSERT
\* waits while another session holds an uncommitted row with the same primary
\* key, and fails once a committed one exists.
ActInsert(p) ==
    /\ h[p].pc = "act_ins"
    /\ \A o \in Procs \ {p} : ~(h[o].newAct /\ ActKey(o) = ActKey(p))
    /\ IF activity[ActKey(p)] # NoRow
       THEN Raise(p, "IntegrityError")
       ELSE h' = [h EXCEPT ![p].pc = "act_min", ![p].act = NewActivityRow,
                           ![p].newAct = TRUE]
    /\ reply' = NoReply
    /\ UNCHANGED <<streakVars, uniquePair, cards, nextId, reviews, activity, clock, started, audit>>

\* the stored row after a handler flushes its daily_activity object
FlushActivity(p, new) ==
    IF h[p].newAct THEN new
    ELSE NetChange(activity[ActKey(p)], h[p].act, new)

\* increment_activity(minutes): setattr, COMMIT, refresh.  The COMMIT is the
\* first since the review was flushed.
ActMinutes(p) ==
    /\ h[p].pc = "act_min"
    /\ LET new == [h[p].act EXCEPT !.minutes = @ + REVIEW_MINUTES_PER_CARD]
           stored == FlushActivity(p, new)
       IN  /\ activity' = [activity EXCEPT ![ActKey(p)] = stored]
           /\ CommitReview(p)
           /\ h' = [h EXCEPT ![p].pc = "act_pts", ![p].act = stored,
                             ![p].newAct = FALSE]
    /\ reply' = NoReply
    /\ UNCHANGED <<streakVars, uniquePair, cards, nextId, clock, started, audit>>

\* increment_activity(points): the SELECT returns the object the session holds;
\* setattr, COMMIT, refresh; create_review returns the review
ActPoints(p) ==
    /\ h[p].pc = "act_pts"
    /\ LET new == [h[p].act EXCEPT !.points = @ + REVIEW_POINTS]
       IN  activity' = [activity EXCEPT ![ActKey(p)] = FlushActivity(p, new)]
    /\ Return(p)
    /\ reply' = NoReply
    /\ UNCHANGED <<streakVars, uniquePair, cards, nextId, reviews, clock, started, audit>>

----------------------------------------------------------------------------
(* SRCardService operations that are one read-modify-write *)

SetSuspended(id, value) ==
    /\ \E c \in CardsById(id) :
          cards' = (cards \ {c}) \cup {[c EXCEPT !.suspended = value]}
    /\ reply' = NoReply
    /\ UNCHANGED <<streakVars, uniquePair, nextId, reviews, activity, clock, h, started, audit>>

SuspendCard(id) == SetSuspended(id, TRUE)

UnsuspendCard(id) == SetSuspended(id, FALSE)

DeleteCard(id) ==
    /\ \E c \in CardsById(id) : cards' = cards \ {c}
    /\ reply' = NoReply
    /\ UNCHANGED <<streakVars, uniquePair, nextId, reviews, activity, clock, h, started, audit>>

Tick ==
    /\ clock < MaxClock
    /\ clock' = clock + 1
    /\ reply' = NoReply
    /\ UNCHANGED <<streakVars, uniquePair, cards, nextId, reviews, activity, h, started, audit>>

----------------------------------------------------------------------------
(* UserStreakService, and DailyActivityService.increment_activity called on  *)
(* its own.  Each operation is one request served alone: its reads, its      *)
(* writes and its COMMIT are one step.                                       *)

\* UserStreak(user_id, current_len=0, longest_len=0, last_day=None)
NewStreak == [current_len |-> 0, longest_len |-> 0, last_day |-> NoDay]

\* get_or_create_streak: the stored row, or the one initialize_streak commits
GetOrCreateStreak(row) == IF row = NoStreak THEN NewStreak ELSE row

\* any(getattr(activity, field) > 0 for field in [...])
Qualifies(row) == row # NoRow /\ \E f \in ActivityFields : row[f] > 0

\* _has_activity
HasActivity(u, d) == <<u, d>> \in DOMAIN activity /\ Qualifies(activity[u, d])

\* the dates recalculate_streak keeps of the learner's ledger rows
ActiveDates(u) == {d \in Days : HasActivity(u, d)}

\* sorted(set(active_dates))
RECURSIVE Sorted(_)
Sorted(S) ==
    IF S = {} THEN <<>>
    ELSE LET m == CHOOSE x \in S : \A y \in S : x <= y
         IN  <<m>> \o Sorted(S \ {m})

\* mutant: the longest length is never raised
TransitionLongestStale(streak, d) ==
    IF streak.last_day = NoDay
    THEN [streak EXCEPT !.current_len = 1, !.last_day = d]
    ELSE IF d = streak.last_day THEN streak
    ELSE IF d # streak.last_day + 1 /\ d < streak.last_day THEN streak
    ELSE [streak EXCEPT !.current_len = IF d = streak.last_day + 1 THEN @ + 1 ELSE 1,
                        !.last_day = d]

\* mutant: the day after the last active day restarts the streak
TransitionNoContinuation(streak, d) ==
    IF streak.last_day = NoDay
    THEN [streak EXCEPT !.current_len = 1,
                        !.longest_len = Max(@, 1),
                        !.last_day = d]
    ELSE IF d <= streak.last_day THEN streak
    ELSE [streak EXCEPT !.current_len = 1,
                        !.last_day = d,
                        !.longest_len = Max(@, 1)]

\* mutant: a later day continues the streak whatever the gap
TransitionGapContinues(streak, d) ==
    IF streak.last_day = NoDay
    THEN [streak EXCEPT !.current_len = 1,
                        !.longest_len = Max(@, 1),
                        !.last_day = d]
    ELSE IF d <= streak.last_day THEN streak
    ELSE [streak EXCEPT !.current_len = @ + 1,
                        !.last_day = d,
                        !.longest_len = Max(@, streak.current_len + 1)]

\* mutant: the last active day is counted again
TransitionSameDayCounts(streak, d) ==
    IF streak.last_day = NoDay
    THEN [streak EXCEPT !.current_len = 1,
                        !.longest_len = Max(@, 1),
                        !.last_day = d]
    ELSE IF d < streak.last_day THEN streak
    ELSE LET cur == IF d <= streak.last_day + 1
                    THEN streak.current_len + 1
                    ELSE 1
         IN  [streak EXCEPT !.current_len = cur,
                            !.last_day = d,
                            !.longest_len = Max(@, cur)]

\* mutant: an earlier day restarts the streak at that day
TransitionBackfill(streak, d) ==
    IF streak.last_day = NoDay
    THEN [streak EXCEPT !.current_len = 1,
                        !.longest_len = Max(@, 1),
                        !.last_day = d]
    ELSE IF d = streak.last_day THEN streak
    ELSE LET cur == IF d = streak.last_day + 1
                    THEN streak.current_len + 1
                    ELSE 1
         IN  [streak EXCEPT !.current_len = cur,
                            !.last_day = d,
                            !.longest_len = Max(@, cur)]

\* lines 69-85 of check_and_update_streak, after _has_activity returned True
Transition(streak, d) ==
    IF streak.last_day = NoDay
    THEN [streak EXCEPT !.current_len = 1,
                        !.longest_len = Max(@, 1),
                        !.last_day = d]
    ELSE IF d = streak.last_day THEN streak
    ELSE IF d # streak.last_day + 1 /\ d < streak.last_day THEN streak
    ELSE LET cur == IF d = streak.last_day + 1
                    THEN streak.current_len + 1
                    ELSE 1
         IN  [streak EXCEPT !.current_len = cur,
                            !.last_day = d,
                            !.longest_len = IF cur > @ THEN cur ELSE @]

\* mutant: a day without activity after a gap breaks the streak
CheckAndUpdateEagerBreak(streak, has, d) ==
    IF has THEN Transition(streak, d)
    ELSE IF streak.last_day # NoDay /\ d > streak.last_day + 1
    THEN [streak EXCEPT !.current_len = 0]
    ELSE streak

\* check_and_update_streak on the row get_or_create_streak returned
CheckAndUpdate(streak, has, d) == IF ~has THEN streak ELSE Transition(streak, d)

\* mutant: the first loop does not restart its count after a gap
RECURSIVE ForwardScanNoRestart(_, _, _, _)
ForwardScanNoRestart(dates, i, current, longest) ==
    IF i > Len(dates) THEN longest
    ELSE ForwardScanNoRestart(dates, i + 1, current + 1, Max(longest, current + 1))

\* the first loop of recalculate_streak from its i-th date on: the longest run
RECURSIVE ForwardScan(_, _, _, _)
ForwardScan(dates, i, current, longest) ==
    IF i > Len(dates) THEN longest
    ELSE LET cur == IF i = 1 THEN 1
                    ELSE IF dates[i] = dates[i - 1] + 1 THEN current + 1
                    ELSE 1
         IN  ForwardScan(dates, i + 1, cur, Max(longest, cur))

\* the second loop of recalculate_streak, walking the dates backwards
RECURSIVE BackwardScan(_, _, _, _)
BackwardScan(dates, i, expected_day, current_streak) ==
    IF i < 1 THEN current_streak
    ELSE IF dates[i] = expected_day - current_streak
    THEN BackwardScan(dates, i - 1, expected_day, current_streak + 1)
    ELSE current_streak

\* the row recalculate_streak commits
Recalculate(streak, active) ==
    IF active = {}
    THEN [streak EXCEPT !.current_len = 0, !.longest_len = 0, !.last_day = NoDay]
    ELSE LET dates == Sorted(active)
             longest == Max(ForwardScan(dates, 1, 0, 0), streak.longest_len)
             last == dates[Len(dates)]
             current == BackwardScan(dates, Len(dates), last, 0)
         IN  [streak EXCEPT !.current_len = current,
                            !.longest_len = Max(longest, current),
                            !.last_day = last]

\* the classification of get_streak_status
Status(streak, has_activity_today, today) ==
    IF streak.last_day # NoDay
    THEN LET days_since_last == today - streak.last_day
         IN  IF has_activity_today \/ days_since_last = 0 THEN "active"
             ELSE IF days_since_last = 1 THEN "at_risk"
             ELSE IF days_since_last > 1 THEN "broken"
             ELSE "inactive"
    ELSE IF has_activity_today THEN "active"
    ELSE "inactive"

\* date.today()
Today == DateOf(clock)

\* increment_activity(user_id, activity_date, field, amount)
IncrementActivity(u, d, field, amount) ==
    /\ recorded < MaxIncrements
    /\ recorded' = recorded + 1
    /\ LET row == IF activity[u, d] = NoRow THEN NewActivityRow ELSE activity[u, d]
       IN  activity' = [activity EXCEPT ![u, d] = [row EXCEPT ![field] = @ + amount]]
    /\ call' = NoCall
    /\ reply' = NoReply
    /\ UNCHANGED <<cardVars, clock, streaks>>

\* check_and_update_streak(user_id, activity_date); NoDay is activity_date=None
CheckAndUpdateStreak(u, activity_date) ==
    LET d == IF activity_date = NoDay THEN Today ELSE activity_date
        streak == GetOrCreateStreak(streaks[u])
    IN  /\ streaks' = [streaks EXCEPT ![u] = CheckAndUpdate(streak, HasActivity(u, d), d)]
        /\ call' = [op |-> "check", user |-> u, date |-> d, status |-> "none"]
        /\ reply' = NoReply
        /\ UNCHANGED <<cardVars, clock, activity, recorded>>

\* mutant: break_streak clears the longest length too
BreakStreakClearsLongest(u) ==
    /\ streaks' = IF streaks[u] = NoStreak THEN streaks
                  ELSE [streaks EXCEPT ![u].current_len = 0, ![u].longest_len = 0]
    /\ call' = [op |-> "break", user |-> u, date |-> NoDay, status |-> "none"]
    /\ reply' = NoReply
    /\ UNCHANGED <<cardVars, clock, activity, recorded>>

\* break_streak(user_id)
BreakStreak(u) ==
    /\ streaks' = IF streaks[u] = NoStreak THEN streaks
                  ELSE [streaks EXCEPT ![u].current_len = 0]
    /\ call' = [op |-> "break", user |-> u, date |-> NoDay, status |-> "none"]
    /\ reply' = NoReply
    /\ UNCHANGED <<cardVars, clock, activity, recorded>>

\* get_streak_status(user_id)
GetStreakStatus(u) ==
    LET streak == GetOrCreateStreak(streaks[u])
    IN  /\ streaks' = [streaks EXCEPT ![u] = streak]
        /\ call' = [op |-> "status", user |-> u, date |-> Today,
                    status |-> Status(streak, HasActivity(u, Today), Today)]
        /\ reply' = NoReply
        /\ UNCHANGED <<cardVars, clock, activity, recorded>>

\* recalculate_streak(user_id)
RecalculateStreak(u) ==
    /\ streaks' = [streaks EXCEPT ![u] =
                      Recalculate(GetOrCreateStreak(streaks[u]), ActiveDates(u))]
    /\ call' = [op |-> "recalculate", user |-> u, date |-> NoDay,
                status |-> "none"]
    /\ reply' = NoReply
    /\ UNCHANGED <<cardVars, clock, activity, recorded>>

\* the calendar day changes
Midnight ==
    /\ Today < MaxDay
    /\ clock' = (Today + 1) * TicksPerDay
    /\ call' = NoCall
    /\ reply' = NoReply
    /\ UNCHANGED <<cardVars, activity, streaks, recorded>>

----------------------------------------------------------------------------
(* Read-only queries of SRCardService and SRReviewService; each is one       *)
(* request served alone.                                                     *)

\* mutant: the due filter does not look at the suspended flag
UserCardsDueIgnoresSuspended(u, suspended, due_only, now) ==
    {c \in cards :
        /\ c.user_id = u
        /\ suspended = "true" => c.suspended = TRUE
        /\ suspended = "false" => c.suspended = FALSE
        /\ due_only => c.due_at <= now}

\* the WHERE clause of get_user_cards; suspended is "none", "true" or "false"
UserCards(u, suspended, due_only, now) ==
    {c \in cards :
        /\ c.user_id = u
        /\ suspended = "true" => c.suspended = TRUE
        /\ suspended = "false" => c.suspended = FALSE
        /\ due_only => (c.due_at <= now /\ c.suspended = FALSE)}

\* the orders ORDER BY due_at ASC may return the rows of S in
OrderedByDue(S) ==
    {s \in [1 .. Cardinality(S) -> S] :
        /\ \A i, j \in 1 .. Cardinality(S) : s[i] = s[j] => i = j
        /\ \A i, j \in 1 .. Cardinality(S) : i < j => s[i].due_at <= s[j].due_at}

RECURSIVE SumOf(_, _)
SumOf(S, field) ==
    IF S = {} THEN 0
    ELSE LET c == CHOOSE x \in S : TRUE
         IN  c[field] + SumOf(S \ {c}, field)

\* func.avg over the rows of S, kept as sum and count; no rows gives NULL,
\* which `or 0.0` turns into 0.0
Average(S, field) == [sum |-> SumOf(S, field), count |-> Cardinality(S)]

\* the dictionary get_user_stats returns
UserStats(u, now) ==
    LET base == {c \in cards : c.user_id = u}
        live == {c \in base : c.suspended = FALSE}
    IN  [total_cards |-> Cardinality(base),
         due_cards |-> Cardinality({c \in live : c.due_at <= now}),
         suspended_cards |-> Cardinality({c \in base : c.suspended = TRUE}),
         new_cards |-> Cardinality({c \in live : c.repetition = 0}),
         learning_cards |->
             Cardinality({c \in live : c.repetition > 0 /\ c.repetition < 3}),
         mature_cards |-> Cardinality({c \in live : c.repetition >= 3}),
         average_ease_factor |-> Average(live, "ease_factor"),
         average_interval |-> Average(live, "interval_d")]

\* the distinct dates of the learner's log entries
ReviewDates(u) ==
    {DateOf(reviews[i].reviewed_at) :
        i \in {k \in 1 .. Len(reviews) : reviews[k].user_id = u}}

\* mutant: the loop goes on counting past a day without an entry
RECURSIVE StreakScanSkipsGaps(_, _, _, _)
StreakScanSkipsGaps(dates, i, expected, streak) ==
    IF i < 1 THEN streak
    ELSE IF dates[i] <= expected
    THEN StreakScanSkipsGaps(dates, i - 1, dates[i] - 1, streak + 1)
    ELSE StreakScanSkipsGaps(dates, i - 1, expected, streak)

\* the loop of get_review_streak over the dates, latest first, from the i-th
RECURSIVE StreakScan(_, _, _, _)
StreakScan(dates, i, expected, streak) ==
    IF i < 1 THEN streak
    ELSE IF dates[i] = expected
    THEN StreakScan(dates, i - 1, expected - 1, streak + 1)
    ELSE IF dates[i] < expected THEN streak
    ELSE StreakScan(dates, i - 1, expected, streak)

\* get_review_streak
ReviewStreak(u, today) ==
    LET dates == Sorted(ReviewDates(u))
    IN  StreakScan(dates, Len(dates), today, 0)

\* get_due_cards(user_id)
GetDueCards(u) ==
    /\ \E s \in OrderedByDue(UserCards(u, "none", TRUE, clock)) :
          reply' = [NoReply EXCEPT !.op = "due", !.user = u, !.now = clock,
                                   !.cards = s]
    /\ UNCHANGED <<uniquePair, cards, nextId, reviews, activity, clock, h,
                   started, streaks, recorded, call, audit>>

\* get_user_stats(user_id)
GetUserStats(u) ==
    /\ reply' = [NoReply EXCEPT !.op = "stats", !.user = u, !.now = clock,
                                !.stats = UserStats(u, clock)]
    /\ UNCHANGED <<uniquePair, cards, nextId, reviews, activity, clock, h,
                   started, streaks, recorded, call, audit>>

\* get_review_streak(user_id)
GetReviewStreak(u) ==
    /\ reply' = [NoReply EXCEPT !.op = "review_streak", !.user = u,
                                !.now = clock,
                                !.streak = ReviewStreak(u, Today)]
    /\ UNCHANGED <<uniquePair, cards, nextId, reviews, activity, clock, h,
                   started, streaks, recorded, call, audit>>

----------------------------------------------------------------------------
(* Specifications *)

CardIds == 1 .. MaxCards

Step(p, QS, PS, limit) ==
    \/ \E u \in Users, f \in Flashcards, q \in QS : StartReview(p, u, f, q, limit)
    \/ \E u \in Users, f \in Flashcards, payload \in PS :
          StartCreate(p, u, f, payload)
    \/ CreateCheck(p)
    \/ InsertCard(p)
    \/ RefreshCreated(p)
    \/ UpdateCard(p)
    \/ LogReview(p)
    \/ ActSelect(p)
    \/ ActInsert(p)
    \/ ActMinutes(p)
    \/ ActPoints(p)

Toggle ==
    \/ \E id \in CardIds : SuspendCard(id)
    \/ \E id \in CardIds : UnsuspendCard(id)

Remove == \E id \in CardIds : DeleteCard(id)

\* requests served by concurrent handlers
Next ==
    \/ \E p \in Procs : Step(p, ConcQualities, {DefaultPayload}, MaxConcurrent)
    \/ Toggle
    \/ Remove
    \/ Tick

Spec == Init /\ [][Next]_vars

\* requests served one after the other
AllIdle == \A p \in Procs : h[p].pc = "idle"

NextSeq ==
    \/ Step("h1", Qualities, Payloads, MaxReviews)
    \/ Tick

SpecSeq == Init /\ [][NextSeq]_vars

\* fields and amounts of the direct increment_activity calls
StreakFields == {"lessons_completed"}

Amounts == {-1, 1}

\* streak and ledger requests served one after the other
NextStreak ==
    \/ \E u \in Users, d \in Days, field \in StreakFields, amount \in Amounts :
          IncrementActivity(u, d, field, amount)
    \/ \E u \in Users, d \in Days \cup {NoDay} : CheckAndUpdateStreak(u, d)
    \/ \E u \in Users : BreakStreak(u)
    \/ \E u \in Users : GetStreakStatus(u)
    \/ \E u \in Users : RecalculateStreak(u)
    \/ Midnight

SpecStreak == Init /\ [][NextStreak]_vars

\* the active dates of a learner that check_and_update_streak was not yet
\* called for, when it is called in ascending order of date
Unchecked(u) ==
    {d \in ActiveDates(u) : d > GetOrCreateStreak(streaks[u]).last_day}

\* activity recorded with positive amounts for days not before the last day
\* checked, check_and_update_streak called for every active date in ascending
\* order, and recalculate_streak called once no date is left to check
NextReplay ==
    \/ \E u \in Users, d \in Days, field \in StreakFields :
          /\ d >= GetOrCreateStreak(streaks[u]).last_day
          /\ IncrementActivity(u, d, field, 1)
    \/ \E u \in Users, d \in Days :
          /\ d \in Unchecked(u)
          /\ \A e \in Unchecked(u) : d <= e
          /\ CheckAndUpdateStreak(u, d)
    \/ \E u \in Users : Unchecked(u) = {} /\ RecalculateStreak(u)

SpecReplay == Init /\ [][NextReplay]_vars

\* streak and ledger requests served one after the other, the ledger
\* changing by positive amounts only
NextGrowing ==
    \/ \E u \in Users, d \in Days, field \in StreakFields :
          IncrementActivity(u, d, field, 1)
    \/ \E u \in Users, d \in Days \cup {NoDay} : CheckAndUpdateStreak(u, d)
    \/ \E u \in Users : BreakStreak(u)
    \/ \E u \in Users : GetStreakStatus(u)
    \/ \E u \in Users : RecalculateStreak(u)
    \/ Midnight

SpecGrowing == Init /\ [][NextGrowing]_vars

\* flashcards, learner and flashcard pairs, and payloads of the requests
\* served while the card queries are asked
QueryFlashcards == {"f1", "f2"}

QueryPairs == {<<"u1", "f1">>, <<"u1", "f2">>, <<"u2", "f1">>}

QueryPayloads ==
    {DefaultPayload,
     [ease_factor |-> 2000, interval_d |-> 3, repetition |-> 2, suspended |-> TRUE]}

\* the steps of handler p past the start of its request
Serve(p) ==
    \/ CreateCheck(p)
    \/ InsertCard(p)
    \/ RefreshCreated(p)
    \/ UpdateCard(p)
    \/ LogReview(p)
    \/ ActSelect(p)
    \/ ActInsert(p)
    \/ ActMinutes(p)
    \/ ActPoints(p)

\* cards of several learners created, some of them suspended, and reviewed,
\* and the card queries asked, one request after the other
NextDue ==
    \/ \E pair \in QueryPairs, payload \in QueryPayloads :
          StartCreate("h1", pair[1], pair[2], payload)
    \/ \E u \in Users, f \in QueryFlashcards : StartReview("h1", u, f, 4, MaxDueReviews)
    \/ Serve("h1")
    \/ AllIdle /\ Tick
    \/ \E u \in Learners : AllIdle /\ GetDueCards(u)
    \/ \E u \in Learners : AllIdle /\ GetUserStats(u)

SpecDue == Init /\ [][NextDue]_vars

\* the payloads and qualities of the requests that write the review log
LogPayloads ==
    {DefaultPayload,
     [ease_factor |-> 2500, interval_d |-> 6, repetition |-> 2, suspended |-> FALSE]}

LogQualities == {1, 4}

\* one learner's card created, reviewed and deleted, one request after the
\* other
NextLog ==
    \/ \E u \in Users, f \in Flashcards, payload \in LogPayloads :
          StartCreate("h1", u, f, payload)
    \/ \E u \in Users, f \in Flashcards, q \in LogQualities :
          StartReview("h1", u, f, q, MaxReviews)
    \/ Serve("h1")
    \/ AllIdle /\ Remove

SpecLog == Init /\ [][NextLog]_vars

\* one learner's reviews over several days and the review streak asked, one
\* request after the other
NextDays ==
    \/ \E u \in Users, f \in Flashcards : StartReview("h1", u, f, 4, MaxReviews)
    \/ Serve("h1")
    \/ AllIdle /\ Midnight
    \/ \E u \in Learners : AllIdle /\ GetReviewStreak(u)

SpecDays == Init /\ [][NextDays]_vars

\* the qualities of the reviews of two flashcards made at the same time
PairQualities == {1, 4}

\* the flashcard each handler's requests are about
FlashcardOf == [p \in Procs |-> IF p = "h1" THEN "f1" ELSE "f2"]

\* one learner's reviews of two flashcards, each flashcard's requests served
\* by its own handler, the two handlers running at the same time
NextPairs ==
    \/ \E p \in Procs, u \in Users, q \in PairQualities :
          StartReview(p, u, FlashcardOf[p], q, MaxConcurrent)
    \/ \E p \in Procs : Serve(p)
    \/ Tick

SpecPairs == Init /\ [][NextPairs]_vars

----------------------------------------------------------------------------
(* Properties *)

\* the committed log entries of one learner and flashcard, oldest first
PairLog(u, f) ==
    SelectSeq(reviews, LAMBDA r : r.user_id = u /\ r.flashcard_id = f)

\* handler p holds a review it has flushed and not yet committed
Flushed(p) == h[p].pc \in {"act_sel", "act_ins", "act_min"}

\* handler p has just committed its card update
JustUpdated(p) == h[p].pc = "update" /\ h'[p].pc = "log"

\* the card was created with the schema defaults
CreatedFresh(c) ==
    /\ audit[c.id].origin.ease_factor = DefaultEase
    /\ audit[c.id].origin.interval_d = 0
    /\ audit[c.id].origin.repetition = 0

\* C1: after any review, with any quality 0..5 and on any card, repeated any
\* number of times, the card's ease factor is at least 1.3.
C1_EaseFloor ==
    \A c \in cards : audit[c.id].applied > 0 => c.ease_factor >= MinEase

\* a card created with ease 2.5 sits at the floor after two quality-0 reviews
C1_Witness ==
    \E c \in cards :
        /\ CreatedFresh(c)
        /\ audit[c.id].applied >= 2
        /\ Len(reviews) >= 2
        /\ reviews[1].quality = 0 /\ reviews[2].quality = 0
        /\ c.ease_factor = MinEase

\* C2: immediately after a review with quality < 3 the card has repetition 0
\* and interval 0, and its due_at is the time of the review.
C2_LapseReset ==
    [][\A p \in Procs :
          (JustUpdated(p) /\ h[p].quality < 3) =>
              \A c \in cards' :
                  c.id = h[p].card.id =>
                      /\ c.repetition = 0
                      /\ c.interval_d = 0
                      /\ c.due_at = clock]_vars

\* a lapse on a card that had a positive interval and repetition count
C2_Witness ==
    \E p \in Procs :
        /\ h[p].pc = "log"
        /\ h[p].quality < 3
        /\ h[p].prev > 0
        /\ \E c \in CardsById(h[p].card.id) :
              c.repetition = 0 /\ c.interval_d = 0 /\ audit[c.id].applied >= 2

\* C3: from a card created with the defaults, the first successful review
\* gives interval 1, the second consecutive one 6, and the third
\* round(6 * ease factor held after the first two reviews).
C3_IntervalProgression ==
    \A c \in cards :
        CreatedFresh(c) =>
            LET L == PairLog(c.user_id, c.flashcard_id)
            IN  \A k \in 1 .. Len(L) :
                    (\A i \in 1 .. k : L[i].quality >= 3) =>
                        /\ k = 1 => L[k].new_interval = 1
                        /\ k = 2 => L[k].new_interval = 6
                        /\ k = 3 => L[k].new_interval = PyRound(6 * L[2].new_ef, 1000)
                        /\ (k = Len(L) /\ audit[c.id].applied = k) =>
                               c.interval_d = L[k].new_interval

\* three successes in a row whose third interval is not the 15 of ease 2.5
C3_Witness ==
    \E c \in cards :
        /\ CreatedFresh(c)
        /\ Len(reviews) = 3
        /\ \A i \in 1 .. 3 : reviews[i].quality >= 3
        /\ reviews[2].new_ef # DefaultEase
        /\ c.interval_d = reviews[3].new_interval
        /\ c.interval_d # 15

\* C4: on a card with repetition >= 2 a review with quality >= 3 sets the
\* interval to max(1, round(previous interval * ease factor before this
\* review)) and adds exactly 1 to the repetition count; (2.5, 6, 2) reviewed
\* with quality 4 becomes (2.5, 15, 3).
C4_SuccessRule ==
    [][\A p \in Procs :
          (JustUpdated(p) /\ h[p].quality >= 3) =>
              \A old \in cards, new \in cards' :
                  (old.id = h[p].card.id /\ new.id = old.id /\ old.repetition >= 2) =>
                      /\ new.interval_d =
                            Max(1, PyRound(old.interval_d * old.ease_factor, 1000))
                      /\ new.repetition = old.repetition + 1
                      /\ (/\ old.ease_factor = 2500
                          /\ old.interval_d = 6
                          /\ old.repetition = 2
                          /\ h[p].quality = 4) =>
                             /\ new.ease_factor = 2500
                             /\ new.interval_d = 15
                             /\ new.repetition = 3]_vars

\* a card whose computed interval rounds to 0 and is floored at 1
C4_Witness ==
    \E p \in Procs :
        /\ h[p].pc = "log"
        /\ h[p].quality >= 3
        /\ h[p].prev = 0
        /\ \E c \in CardsById(h[p].card.id) :
              /\ audit[c.id].origin.repetition = 2
              /\ audit[c.id].applied = 1
              /\ c.interval_d = 1
              /\ c.repetition = 3

\* the adjustment of the ease factor for each quality, in thousandths
C5_Adjustment == [q \in 0 .. 5 |->
    CASE q = 5 -> 100 [] q = 4 -> 0 [] q = 3 -> -140
      [] q = 2 -> -320 [] q = 1 -> -540 [] q = 0 -> -800]

\* C5 as stated: a review sets the ease factor to
\* max(1.3, old + 0.1 - (5-q)*(0.08 + (5-q)*0.02)), lapse or success alike.
C5_AsStated ==
    [][\A p \in Procs :
          JustUpdated(p) =>
              \A old \in cards, new \in cards' :
                  (old.id = h[p].card.id /\ new.id = old.id) =>
                      new.ease_factor =
                          Max(MinEase, old.ease_factor + C5_Adjustment[h[p].quality])]_vars

\* C5 (amended): a review sets the ease factor to
\* max(1.3, round(old + 0.1 - (5-q)*(0.08 + (5-q)*0.02), 2)), the adjusted
\* value rounded to two decimals, lapse or success alike.
C5_EaseUpdate ==
    [][\A p \in Procs :
          JustUpdated(p) =>
              \A old \in cards, new \in cards' :
                  (old.id = h[p].card.id /\ new.id = old.id) =>
                      new.ease_factor =
                          Max(MinEase,
                              Round2(old.ease_factor + C5_Adjustment[h[p].quality]))]_vars

\* a lapse that lowered an ease factor given with three decimals
C5_Witness ==
    \E p \in Procs :
        /\ h[p].pc = "log"
        /\ h[p].quality = 2
        /\ \E c \in CardsById(h[p].card.id) :
              /\ audit[c.id].origin.ease_factor = 2557
              /\ audit[c.id].applied = 1
              /\ c.ease_factor = 2240

\* C6: the log entry of a review carries the card's interval and ease factor
\* as they are right after the review, and as prev_interval the card's
\* interval right before it.
C6_LogMatchesCard ==
    \A c \in cards :
        LET L == PairLog(c.user_id, c.flashcard_id)
            before == IF L = <<>> THEN audit[c.id].origin.interval_d
                      ELSE L[Len(L)].new_interval
        IN  /\ \A i \in 1 .. Len(L) :
                  L[i].prev_interval =
                      IF i = 1 THEN audit[c.id].origin.interval_d
                      ELSE L[i - 1].new_interval
            /\ (L # <<>> /\ Len(L) = audit[c.id].applied) =>
                  /\ L[Len(L)].new_interval = c.interval_d
                  /\ L[Len(L)].new_ef = c.ease_factor
            /\ \A p \in Procs :
                  (Flushed(p) /\ h[p].card.id = c.id) =>
                      /\ h[p].rev.new_interval = c.interval_d
                      /\ h[p].rev.new_ef = c.ease_factor
                      /\ h[p].rev.prev_interval = before

\* a second review logged with prev 1 and new 6 on a card now at interval 6
C6_Witness ==
    \E c \in cards :
        /\ Len(reviews) = 2
        /\ reviews[2].prev_interval = 1
        /\ reviews[2].new_interval = 6
        /\ reviews[2].new_ef # DefaultEase
        /\ c.interval_d = 6
        /\ c.ease_factor = reviews[2].new_ef

\* C10: a review with a quality outside 0..5 fails with the invalid-quality
\* error and changes no card, no log entry and no daily-activity row.
C10_InvalidQualityRejected ==
    /\ [](\A p \in Procs : h[p].op = "review" => h[p].quality \in 0 .. 5)
    /\ [](\A i \in 1 .. Len(reviews) : reviews[i].quality \in 0 .. 5)
    /\ [][\A p \in Procs :
             (h'[p].res = "InvalidQuality" /\ h[p].res # "InvalidQuality") =>
                 /\ h[p].pc = "idle" /\ h'[p].pc = "idle"
                 /\ UNCHANGED persisted]_vars

\* a rejected review while a card, a log entry and an activity row exist
C10_Witness ==
    \E p \in Procs :
        /\ h[p].res = "InvalidQuality"
        /\ cards # {}
        /\ reviews # <<>>
        /\ \E u \in Users, d \in Days : activity[u, d] # NoRow

\* the card ids ever created for one learner and flashcard
IdsOf(u, f) ==
    {i \in DOMAIN audit :
        audit[i].origin.user_id = u /\ audit[i].origin.flashcard_id = f}

RECURSIVE SumApplied(_)
SumApplied(ids) ==
    IF ids = {} THEN 0
    ELSE LET i == CHOOSE x \in ids : TRUE
         IN  audit[i].applied + SumApplied(ids \ {i})

\* C7: the card update of a review and its log entry are stored as one unit:
\* in every stored state, each learner and flashcard has as many review
\* updates applied to its cards as it has log entries.
C7_AtomicReview ==
    \A u \in Users, f \in Flashcards :
        SumApplied(IdsOf(u, f)) = Len(PairLog(u, f))

\* C8: there is at most one card for each learner and flashcard, whatever the
\* interleaving of the calls that create it.
C8_OneCardPerPair ==
    \A u \in Users, f \in Flashcards : Cardinality(CardsOf(u, f)) <= 1

\* the card after the first k entries of L, taken in the order ord
RECURSIVE Replayed(_, _, _, _)
Replayed(card, L, ord, k) ==
    IF k = 0 THEN card
    ELSE UpdateRule(Replayed(card, L, ord, k - 1), L[ord[k]].quality, 0)

\* the log L and the card `final` are what the reviews of L give when they
\* are applied to `card` one after the other in the order ord
SerialOutcome(card, L, ord, final) ==
    /\ \A k \in 1 .. Len(L) :
          LET before == Replayed(card, L, ord, k - 1)
              after == Replayed(card, L, ord, k)
          IN  /\ L[ord[k]].prev_interval = before.interval_d
              /\ L[ord[k]].new_interval = after.interval_d
              /\ L[ord[k]].new_ef = after.ease_factor
    /\ LET last == Replayed(card, L, ord, Len(L))
       IN  /\ final.repetition = last.repetition
           /\ final.interval_d = last.interval_d
           /\ final.ease_factor = last.ease_factor

Orders(n) == {o \in [1 .. n -> 1 .. n] : \A i, j \in 1 .. n : o[i] = o[j] => i = j}

\* C9: once the reviews of a learner and flashcard have all returned, the
\* card (repetition, interval, ease factor) and the log entries are those of
\* the reviews applied one after the other in some order.  Stated for a pair
\* whose only card was never deleted and whose reviews all succeeded.
C9_NoLostUpdate ==
    AllIdle =>
        \A c \in cards :
            LET L == PairLog(c.user_id, c.flashcard_id)
            IN  (/\ IdsOf(c.user_id, c.flashcard_id) = {c.id}
                 /\ Len(L) = audit[c.id].applied) =>
                    \E ord \in Orders(Len(L)) :
                        SerialOutcome(audit[c.id].origin, L, ord, c)

\* handler p serves a review that created its card and has not yet updated it
LazyPending(p) ==
    /\ h[p].op = "review"
    /\ h[p].card # NoCard
    /\ h[p].card.id \in DOMAIN audit
    /\ audit[h[p].card.id].by = "review"
    /\ audit[h[p].card.id].applied = 0

\* handler p serves the first review of a card that a review created
LazyFirst(p) ==
    /\ h[p].op = "review"
    /\ h[p].card # NoCard
    /\ h[p].card.id \in DOMAIN audit
    /\ audit[h[p].card.id].by = "review"
    /\ audit[h[p].card.id].applied = 1
    /\ PairLog(h[p].user, h[p].flash) = <<>>

\* C11: a review with a valid quality on a learner and flashcard that have no
\* card does not fail; it creates exactly one card, with ease factor 2.5,
\* interval 0, repetition 0 and not suspended, applies the update rule to
\* that card, and appends exactly one log entry, whose prev_interval is 0.
C11_LazyCreation ==
    /\ [](\A p \in Procs : h[p].res \in {"none", "InvalidQuality"})
    /\ [][\A p \in Procs :
             (h[p].op = "review" /\ h[p].pc = "insert" /\ h'[p] # h[p]) =>
                 /\ h'[p].pc = "refresh"
                 /\ \E c \in cards' :
                       /\ c \notin cards
                       /\ cards' = cards \cup {c}
                       /\ CardsOf(h[p].user, h[p].flash)' = {c}
                       /\ c.ease_factor = DefaultEase
                       /\ c.interval_d = 0
                       /\ c.repetition = 0
                       /\ c.suspended = FALSE
                       /\ c.due_at = clock]_vars
    /\ [][\A p \in Procs :
             (LazyPending(p) /\ JustUpdated(p)) =>
                 /\ h[p].prev = 0
                 /\ \A c \in cards :
                       c.id = h[p].card.id =>
                           cards' = (cards \ {c}) \cup
                                        {UpdateRule(c, h[p].quality, clock)}]_vars
    /\ [][\A p \in Procs :
             (LazyFirst(p) /\ h[p].pc = "act_min" /\ h'[p] # h[p]) =>
                 /\ Len(reviews') = Len(reviews) + 1
                 /\ reviews'[Len(reviews')].prev_interval = 0
                 /\ reviews'[Len(reviews')].quality = h[p].quality
                 /\ Len(PairLog(h[p].user, h[p].flash)') = 1]_vars

\* a first review with quality 5 has returned: one card, created by the
\* review, at interval 1 and ease 2.6, and one log entry with prev_interval 0
C11_Witness ==
    /\ AllIdle
    /\ Len(reviews) = 1
    /\ reviews[1].prev_interval = 0
    /\ reviews[1].quality = 5
    /\ \E c \in cards :
          /\ cards = {c}
          /\ audit[c.id].by = "review"
          /\ audit[c.id].applied = 1
          /\ c.interval_d = 1
          /\ c.repetition = 1
          /\ c.ease_factor = 2600

----------------------------------------------------------------------------
(* Streak properties *)

\* the streak of a learner as get_or_create_streak returns it
StreakOf(u) == GetOrCreateStreak(streaks[u])

\* the step is a check_and_update_streak call of learner u for date d
CheckStep(u, d) == call'.op = "check" /\ call'.user = u /\ call'.date = d

\* C12: in every stored streak row, longest_len >= current_len >= 0, after any
\* sequence of check_and_update_streak, break_streak and recalculate_streak
\* calls, with any dates and any ledger.
C12_StreakInvariant ==
    \A u \in Users :
        streaks[u] # NoStreak =>
            /\ streaks[u].longest_len >= streaks[u].current_len
            /\ streaks[u].current_len >= 0

\* a streak of two days, counted by check_and_update_streak, was broken by
\* break_streak and restarted by a later check
C12_Witness ==
    /\ call.op = "check"
    /\ streaks[call.user] # NoStreak
    /\ streaks[call.user].current_len = 1
    /\ streaks[call.user].longest_len = 2
    /\ streaks[call.user].last_day = call.date
    /\ HasActivity(call.user, call.date)
    /\ HasActivity(call.user, call.date - 1)

\* C13: when the learner has qualifying activity on the date and the date is
\* the day after last_day, check_and_update_streak adds 1 to current_len, sets
\* last_day to the date and longest_len to max(longest_len, new current_len).
C13_Continuation ==
    [][\A u \in Users, d \in Days :
          (/\ CheckStep(u, d)
           /\ streaks[u] # NoStreak
           /\ streaks[u].last_day # NoDay
           /\ HasActivity(u, d)
           /\ d = streaks[u].last_day + 1) =>
              /\ streaks'[u].current_len = streaks[u].current_len + 1
              /\ streaks'[u].last_day = d
              /\ streaks'[u].longest_len =
                    Max(streaks[u].longest_len, streaks[u].current_len + 1)]_vars

\* three days in a row were counted one after the other
C13_Witness ==
    /\ call.op = "check"
    /\ streaks[call.user] # NoStreak
    /\ streaks[call.user].current_len = 3
    /\ streaks[call.user].longest_len = 3
    /\ streaks[call.user].last_day = call.date
    /\ \A k \in 0 .. 2 : HasActivity(call.user, call.date - k)

\* C14: when the learner has qualifying activity on a date later than the day
\* after last_day, check_and_update_streak sets current_len to 1 and last_day
\* to the date, and leaves longest_len as it was if it was at least 1.
C14_GapHandling ==
    [][\A u \in Users, d \in Days :
          (/\ CheckStep(u, d)
           /\ streaks[u] # NoStreak
           /\ streaks[u].last_day # NoDay
           /\ HasActivity(u, d)
           /\ d > streaks[u].last_day + 1) =>
              /\ streaks'[u].current_len = 1
              /\ streaks'[u].last_day = d
              /\ streaks[u].longest_len >= 1 =>
                    streaks'[u].longest_len = streaks[u].longest_len]_vars

\* a streak of two days was followed by a check two days after its last day
C14_Witness ==
    /\ call.op = "check"
    /\ streaks[call.user] # NoStreak
    /\ streaks[call.user].current_len = 1
    /\ streaks[call.user].longest_len = 2
    /\ streaks[call.user].last_day = call.date
    /\ HasActivity(call.user, call.date)
    /\ ~HasActivity(call.user, call.date - 1)
    /\ HasActivity(call.user, call.date - 2)
    /\ HasActivity(call.user, call.date - 3)

\* C15: with the ledger unchanged in between, a second check_and_update_streak
\* call with the same date leaves the streak as the first call left it.
C15_Idempotence ==
    [][\A u \in Users, d \in Days :
          (/\ call.op = "check" /\ call.user = u /\ call.date = d
           /\ CheckStep(u, d)) =>
              streaks'[u] = streaks[u]]_vars

\* a check has just started a streak on a day with activity; the same check
\* can be made again
C15_Witness ==
    /\ call.op = "check"
    /\ streaks[call.user] # NoStreak
    /\ streaks[call.user].current_len = 1
    /\ streaks[call.user].longest_len = 1
    /\ streaks[call.user].last_day = call.date
    /\ HasActivity(call.user, call.date)
    /\ ENABLED CheckAndUpdateStreak(call.user, call.date)

\* C16: when the learner has no qualifying activity on the date (no ledger
\* row, or a row whose four counters are 0), check_and_update_streak leaves
\* current_len, longest_len and last_day as they were, whatever the gap.
C16_NoEagerBreak ==
    [][\A u \in Users, d \in Days :
          (CheckStep(u, d) /\ ~HasActivity(u, d)) =>
              /\ StreakOf(u)' = StreakOf(u)
              /\ activity' = activity]_vars

\* a check for a day whose ledger row holds only zeros, two days or more after
\* the last active day of a running streak
C16_Witness ==
    /\ call.op = "check"
    /\ activity[call.user, call.date] # NoRow
    /\ \A f \in ActivityFields : activity[call.user, call.date][f] = 0
    /\ streaks[call.user] # NoStreak
    /\ streaks[call.user].current_len >= 1
    /\ streaks[call.user].last_day # NoDay
    /\ call.date > streaks[call.user].last_day + 1

\* C17: when the date is earlier than last_day, check_and_update_streak leaves
\* current_len, longest_len and last_day as they were (it returns the row
\* unchanged), even when the learner has qualifying activity on the date.
C17_OutOfOrderIgnored ==
    [][\A u \in Users, d \in Days :
          (/\ CheckStep(u, d)
           /\ streaks[u] # NoStreak
           /\ streaks[u].last_day # NoDay
           /\ d < streaks[u].last_day) =>
              streaks'[u] = streaks[u]]_vars

\* a check for an active day that lies before the last active day
C17_Witness ==
    /\ call.op = "check"
    /\ HasActivity(call.user, call.date)
    /\ streaks[call.user] # NoStreak
    /\ streaks[call.user].current_len = 1
    /\ streaks[call.user].last_day # NoDay
    /\ call.date < streaks[call.user].last_day

\* the largest element of a non-empty set of numbers
MaxOf(S) == CHOOSE x \in S : \A y \in S : y <= x

\* the length of the longest run of consecutive dates in S
LongestRunOf(S) ==
    IF S = {} THEN 0
    ELSE MaxOf({b - a + 1 : <<a, b>> \in {r \in S \X S : r[1] .. r[2] \subseteq S}})

\* the length of the run of consecutive dates in S that ends at its latest date
TrailingRunOf(S) ==
    IF S = {} THEN 0
    ELSE MaxOf({MaxOf(S) - a + 1 : a \in {x \in S : x .. MaxOf(S) \subseteq S}})

\* C18: after recalculate_streak, longest_len is the length of the longest run
\* of consecutive dates among the learner's dates with qualifying activity,
\* current_len the length of the run ending at the latest such date, and
\* last_day that date, whatever the row held before the call.
C18_FullRecompute ==
    call.op = "recalculate" =>
        LET S == ActiveDates(call.user)
            row == streaks[call.user]
        IN  /\ row # NoStreak
            /\ row.longest_len = LongestRunOf(S)
            /\ row.current_len = TrailingRunOf(S)
            /\ row.last_day = IF S = {} THEN NoDay ELSE MaxOf(S)

\* C19: get_streak_status returns one of active, at_risk, broken, inactive:
\* active iff there is activity today or last_day is today; at_risk iff there
\* is no activity today and last_day is yesterday; broken iff there is no
\* activity today and last_day is more than one day back; inactive iff no
\* last_day is recorded and there is no activity today.
C19_StatusClassification ==
    call.op = "status" =>
        LET row == StreakOf(call.user)
            today == call.date
            has == HasActivity(call.user, today)
            recorded_day == row.last_day # NoDay
            days_since_last == today - row.last_day
        IN  /\ call.status \in {"active", "at_risk", "broken", "inactive"}
            /\ call.status = "active" <=> (has \/ row.last_day = today)
            /\ call.status = "at_risk" <=>
                  (~has /\ recorded_day /\ days_since_last = 1)
            /\ call.status = "broken" <=>
                  (~has /\ recorded_day /\ days_since_last > 1)
            /\ call.status = "inactive" <=> (~recorded_day /\ ~has)

\* C20: get_streak_status leaves the stored user_streaks rows and the
\* daily_activity ledger exactly as they were.
C20_StatusReadOnly ==
    [][call'.op = "status" => (streaks' = streaks /\ activity' = activity)]_vars

----------------------------------------------------------------------------
(* Due queue, statistics and log properties *)

\* C22: a review leaves the card with suspended = false, whatever the flag was
\* before, so that the card is in the due queue as soon as due_at <= now
\* (and stays in it while no suspend request follows).
C22_ReviewReactivates ==
    /\ [][\A p \in Procs :
             JustUpdated(p) =>
                 \A c \in cards' :
                     c.id = h[p].card.id =>
                         /\ c.suspended = FALSE
                         /\ c.due_at <= clock' =>
                               c \in UserCards(c.user_id, "none", TRUE, clock)']_vars
    /\ [](\A c \in cards :
             (audit[c.id].applied > 0 /\ c.due_at <= clock) =>
                 c \in UserCards(c.user_id, "none", TRUE, clock))

\* a card created suspended has been reviewed with a lapse: it is not
\* suspended any more and is due at once
C22_Witness ==
    \E p \in Procs :
        /\ h[p].pc = "log"
        /\ h[p].quality < 3
        /\ \E c \in CardsById(h[p].card.id) :
              /\ audit[c.id].origin.suspended = TRUE
              /\ audit[c.id].applied = 1
              /\ c.suspended = FALSE
              /\ c \in UserCards(c.user_id, "none", TRUE, clock)

\* C23: every stored card has ease_factor >= 1.3, interval_d >= 0 and
\* repetition >= 0, cards created by an explicit request and not yet reviewed
\* included.
C23_StoredEaseFloor ==
    \A c \in cards :
        /\ c.ease_factor >= MinEase
        /\ c.interval_d >= 0
        /\ c.repetition >= 0

\* the number of entries of L after its last entry with quality < 3
SuccessesSinceLapse(L) ==
    LET lapses == {i \in 1 .. Len(L) : L[i].quality < 3}
    IN  Len(L) - (IF lapses = {} THEN 0 ELSE MaxOf(lapses))

Listed == {reply.cards[i] : i \in 1 .. Len(reply.cards)}

\* C21: the due queue of a learner lists, once each and in ascending order of
\* due_at, exactly the learner's cards that are not suspended and have
\* due_at <= now: no card of another learner, and no suspended card whatever
\* its due_at.
C21_DueQueue ==
    reply.op = "due" =>
        /\ Listed = {c \in cards : /\ c.user_id = reply.user
                                   /\ c.suspended = FALSE
                                   /\ c.due_at <= reply.now}
        /\ \A i, j \in 1 .. Len(reply.cards) :
              /\ reply.cards[i] = reply.cards[j] => i = j
              /\ i < j => reply.cards[i].due_at <= reply.cards[j].due_at

\* a due queue that lists one of the learner's cards and leaves out another,
\* suspended and due
C21_Witness ==
    /\ reply.op = "due"
    /\ Len(reply.cards) = 1
    /\ \E c \in cards \ Listed :
          c.user_id = reply.user /\ c.suspended = TRUE /\ c.due_at <= reply.now

\* C26: the statistics of a learner count, over all of the learner's cards,
\* the cards, the suspended ones, the due ones, and the new, learning and
\* mature ones by repetition count, so that new + learning + mature = total;
\* the means of ease factor and interval are taken over the cards that are not
\* suspended and are 0.0 when there is none.
C26_Statistics ==
    reply.op = "stats" =>
        LET base == {c \in cards : c.user_id = reply.user}
            live == {c \in base : c.suspended = FALSE}
            st == reply.stats
        IN  /\ st.total_cards = Cardinality(base)
            /\ st.suspended_cards = Cardinality(base \ live)
            /\ st.due_cards = Cardinality({c \in live : c.due_at <= reply.now})
            /\ st.new_cards = Cardinality({c \in base : c.repetition = 0})
            /\ st.learning_cards =
                  Cardinality({c \in base : 0 < c.repetition /\ c.repetition < 3})
            /\ st.mature_cards = Cardinality({c \in base : c.repetition >= 3})
            /\ st.new_cards + st.learning_cards + st.mature_cards = st.total_cards
            /\ st.average_ease_factor = Average(live, "ease_factor")
            /\ st.average_interval = Average(live, "interval_d")

\* the largest k such that each of the k days today, today - 1, ..., today -
\* (k - 1) is in S
DaysInARow(S, today) ==
    CHOOSE k \in 0 .. today + 1 :
        /\ \A i \in 0 .. k - 1 : today - i \in S
        /\ k = today + 1 \/ today - k \notin S

\* C27: the review streak of a learner is the number of calendar days in a
\* row, today included and going backwards, on which the learner has a log
\* entry: 0 without an entry today, and the count stops at the first day
\* without an entry.
C27_ReviewStreak ==
    reply.op = "review_streak" =>
        reply.streak = DaysInARow(ReviewDates(reply.user), DateOf(reply.now))

\* a streak of two days that stops at a day without an entry, with an older
\* entry before that day
C27_Witness ==
    /\ reply.op = "review_streak"
    /\ reply.streak = 2
    /\ \E d \in ReviewDates(reply.user) : d < DateOf(reply.now) - 2

\* the review updates applied to the cards of ids with an id up to i
RECURSIVE AppliedUpTo(_, _)
AppliedUpTo(ids, i) ==
    IF i = 0 THEN 0
    ELSE (IF i \in ids THEN audit[i].applied ELSE 0) + AppliedUpTo(ids, i - 1)

\* the card that the k-th log entry of a learner and flashcard was made on,
\* when requests are served one after the other: cards are numbered in the
\* order of their creation, and a pair gets a new card only after its card
\* was deleted
CardOfEntry(u, f, k) ==
    CHOOSE i \in IdsOf(u, f) :
        /\ k <= AppliedUpTo(IdsOf(u, f), i)
        /\ k > AppliedUpTo(IdsOf(u, f), i - 1)

EntriesOn(u, d) ==
    {i \in 1 .. Len(reviews) :
        reviews[i].user_id = u /\ DateOf(reviews[i].reviewed_at) = d}

\* C24: reviews of different flashcards made at the same time do not affect
\* each other: no call fails, and once all have returned, every call has its
\* log entry, each card and its log are those of its reviews applied one
\* after the other, and the daily-activity row of each day holds the minutes
\* and points of all the reviews of that day.
C24_PairsIndependent ==
    /\ \A p \in Procs : h[p].res = "none"
    /\ AllIdle =>
          /\ Len(reviews) = started
          /\ \A c \in cards :
                LET L == PairLog(c.user_id, c.flashcard_id)
                IN  SerialOutcome(audit[c.id].origin, L,
                                  [i \in 1 .. Len(L) |-> i], c)
          /\ \A u \in Users, d \in Days :
                LET n == Cardinality(EntriesOn(u, d))
                IN  IF n = 0 THEN activity[u, d] = NoRow
                    ELSE /\ activity[u, d] # NoRow
                         /\ activity[u, d].minutes = n * REVIEW_MINUTES_PER_CARD
                         /\ activity[u, d].points = n * REVIEW_POINTS

\* C28: when check_and_update_streak has been called, from a fresh streak
\* row, once for every date with qualifying activity in ascending order of
\* date, the row (current_len, longest_len, last_day) is the one
\* recalculate_streak computes from the same ledger, and recalculate_streak
\* called then leaves it as it is.
C28_ReplayAgrees ==
    \A u \in Users :
        Unchecked(u) = {} =>
            StreakOf(u) = Recalculate(NewStreak, ActiveDates(u))

\* the dates 0, 1 and 3 checked in this order and the row then recalculated
C28_Witness ==
    /\ call.op = "recalculate"
    /\ ActiveDates(call.user) = {0, 1, 3}
    /\ StreakOf(call.user) = [current_len |-> 1, longest_len |-> 2, last_day |-> 3]

\* C30: while the ledger changes by positive amounts only, no call of
\* check_and_update_streak, break_streak or recalculate_streak (nor any other
\* request) leaves longest_len lower than it was before the call.
C30_BestNeverLost ==
    [][\A u \in Users :
          GetOrCreateStreak(streaks'[u]).longest_len >= StreakOf(u).longest_len]_vars

\* a streak of two days broken: the current length is 0 and the longest
\* length still 2
C30_Witness ==
    /\ call.op = "break"
    /\ StreakOf(call.user).longest_len = 2
    /\ StreakOf(call.user).current_len = 0
====
